---- MODULE Spec2Model ----
(***************************************************************************)
(* Namespace installation pipeline of structor's server controller         *)
(* (src/src-server/structor/controller.js): preInstall, the dry run, and   *)
(* installFromLocalDir, the promise chain that injects the bundle's        *)
(* namespaces into the project's aggregation files and copies the bundle's *)
(* directory groups.                                                       *)
(*                                                                         *)
(* One step of the model is one completion of an asynchronous call         *)
(* together with every promise reaction that runs before the next          *)
(* completion can be delivered (reactions are microtasks: they run to the  *)
(* end before the event loop delivers another completion).                 *)
(***************************************************************************)
EXTENDS Integers, Sequences, FiniteSets, TLC

(* ------------------------------------------------------------------ *)
(* Bounds and the small sets the inputs are drawn from                 *)
(* ------------------------------------------------------------------ *)

\* number of installFromLocalDir invocations, issued one after another
MaxRuns == 2

\* number of preInstall calls that may be in flight together
MaxCalls == 2

\* namespace names, in the order readDirectoryFlat and forOwn enumerate them
NameOrder == <<"auth", "blog">>

Names == {NameOrder[i] : i \in 1..Len(NameOrder)}

\* values of reducerPropName a manifest may carry
PropNames == {"auth", "main"}

Groups == {"modules", "defaults", "docs"}

\* names of a set, as a list in enumeration order
RECURSIVE ListFrom(_, _)
ListFrom(S, i) ==
    IF i > Len(NameOrder) THEN <<>>
    ELSE (IF NameOrder[i] \in S THEN <<NameOrder[i]>> ELSE <<>>) \o ListFrom(S, i + 1)

ListOf(S) == ListFrom(S, 1)

(* ------------------------------------------------------------------ *)
(* Text of the aggregation files: a list of lines                      *)
(* ------------------------------------------------------------------ *)

ImportLine(ident, importPath) == [kind |-> "import", key |-> "-", id |-> ident, path |-> importPath]

EntryLine(symbolName, ident) == [kind |-> "entry", key |-> symbolName, id |-> ident, path |-> <<>>]

\* gengine.injectReducer(sourceCode, reducerPropName, identifier, importPath)
injectReducer(text, name, ident, importPath) ==
    text \o <<ImportLine(ident, importPath), EntryLine(name, ident)>>

\* gengine.injectSaga(sourceCode, identifier, importPath)
injectSaga(text, ident, importPath) ==
    text \o <<ImportLine(ident, importPath), EntryLine("-", ident)>>

\* gengine.injectNamespaceComponent(sourceCode, namespace, importPath)
injectNamespaceComponent(text, name, importPath) ==
    text \o <<ImportLine(<<name>>, importPath), EntryLine(name, <<name>>)>>

\* `${value.reducerPropName}Reducer`
ReducerIdent(propName) == <<propName, "Reducer">>

\* `${prop}Sagas`
SagasIdent(prop) == <<prop, "Sagas">>

\* path.join('modules', prop, 'reducer.js')
ReducerPath(prop) == <<"modules", prop, "reducer.js">>

\* path.join('modules', prop, 'sagas.js')
SagasPath(prop) == <<"modules", prop, "sagas.js">>

\* path.join('modules', dirItem.name)
ComponentPath(name) == <<"modules", name>>

\* number of import lines of a text that reference importPath
CountImports(text, importPath) ==
    Cardinality({i \in DOMAIN text : text[i].kind = "import" /\ text[i].path = importPath})

\* number of registration entries of a text for the identifier ident
CountEntries(text, ident) ==
    Cardinality({i \in DOMAIN text : text[i].kind = "entry" /\ text[i].id = ident})

\* namespaces the component index registers
IndexedNames(text) == {text[i].key : i \in {j \in DOMAIN text : text[j].kind = "entry"}}

(* ------------------------------------------------------------------ *)
(* State                                                               *)
(* ------------------------------------------------------------------ *)

VARIABLES
    \* the project on disk
    reducersFile,      \* text of the reducer registry
    sagasFile,         \* text of the side-effect registry
    indexFile,         \* text of the component index
    dest,              \* dest[g][n]: content of the destination directory n of group g
    \* the bundle on disk
    manifest,          \* structor-namespaces.json
    bundle,            \* bundle[g]: subdirectories of the bundle's group g
    \* one invocation of installFromLocalDir
    outcome,           \* "idle", "pending", "done" (resolved) or "failed" (rejected)
    reason,            \* rejection reason handed to the caller
    started,           \* asynchronous calls made so far
    ok,                \* calls that resolved
    failed,            \* calls that rejected
    namespacesMeta,
    componentTree,
    globalReducerSourceCode,
    globalSagasSourceCode,
    componentsIndexSourceCode,
    indexWriteText,    \* indexWriteText[n]: text passed to the index writeFile of task n
    \* across invocations
    run,               \* number of invocations so far
    installed0,        \* namespaces the project held before the first invocation
    reducerWrites,     \* reducer-registry write-backs that succeeded, all invocations
    sagasWrites,       \* side-effect-registry write-backs that succeeded, all invocations
    \* preInstall calls
    pre

projectVars == <<reducersFile, sagasFile, indexFile, dest>>

bundleVars == <<manifest, bundle>>

runVars == <<outcome, reason, started, ok, failed, namespacesMeta, componentTree,
             globalReducerSourceCode, globalSagasSourceCode, componentsIndexSourceCode,
             indexWriteText>>

historyVars == <<run, installed0, reducerWrites, sagasWrites>>

vars == <<projectVars, bundleVars, runVars, historyVars, pre>>

(* ------------------------------------------------------------------ *)
(* Asynchronous calls                                                  *)
(* ------------------------------------------------------------------ *)

ReadJson == <<"readJson", "structor-namespaces.json", "-">>

InstallDeps == <<"installDependencies", "project", "-">>

GetTree == <<"getComponentTree", "project", "-">>

ChkReducer(n) == <<"isExisting", "reducer.js", n>>

ChkSagas(n) == <<"isExisting", "sagas.js", n>>

WriteReducers == <<"writeFile", "reducers", "-">>

WriteSagas == <<"writeFile", "sagas", "-">>

ReadDir(g) == <<"readDirectoryFlat", g, "-">>

Remove(g, n) == <<"removeFile", g, n>>

Copy(g, n) == <<"copyFile", g, n>>

WriteIndex(n) == <<"writeFile", "index", n>>

NoReason == <<"-", "-", "-">>

\* Error('Modules directory is empty') and its siblings
EmptyError(g) == <<"Error", g, "directory is empty">>

TypeError == <<"TypeError", "-", "-">>

InFlight == started \ (ok \cup failed)

(* ------------------------------------------------------------------ *)
(* Initial states: a project, a bundle, nothing invoked                *)
(* ------------------------------------------------------------------ *)

\* a manifest file: absent, of another shape, or a namespaces map
Manifests ==
    {[present |-> FALSE, shaped |-> FALSE, namespaces |-> <<>>],
     [present |-> TRUE, shaped |-> FALSE, namespaces |-> <<>>]}
    \cup {[present |-> TRUE, shaped |-> TRUE, namespaces |-> f] :
            f \in UNION {[S -> PropNames] : S \in SUBSET Names}}

NoMeta == [present |-> FALSE, shaped |-> FALSE, namespaces |-> <<>>]

NoTree == [modules |-> {}, reducersSourceCode |-> <<>>, sagasSourceCode |-> <<>>,
           indexSourceCode |-> <<>>]

\* the aggregation files of a project that holds the namespaces of a list
RECURSIVE ReducersOf(_)
ReducersOf(list) ==
    IF list = <<>> THEN <<>>
    ELSE injectReducer(ReducersOf(SubSeq(list, 1, Len(list) - 1)), list[Len(list)],
                       ReducerIdent(list[Len(list)]), ReducerPath(list[Len(list)]))

RECURSIVE SagasOf(_)
SagasOf(list) ==
    IF list = <<>> THEN <<>>
    ELSE injectSaga(SagasOf(SubSeq(list, 1, Len(list) - 1)),
                    SagasIdent(list[Len(list)]), SagasPath(list[Len(list)]))

RECURSIVE IndexOf(_)
IndexOf(list) ==
    IF list = <<>> THEN <<>>
    ELSE injectNamespaceComponent(IndexOf(SubSeq(list, 1, Len(list) - 1)),
                                  list[Len(list)], ComponentPath(list[Len(list)]))

InitProject ==
    \E installed \in SUBSET Names :
        /\ installed0 = installed
        /\ reducersFile = ReducersOf(ListOf(installed))
        /\ sagasFile = SagasOf(ListOf(installed))
        /\ indexFile = IndexOf(ListOf(installed))
        /\ dest = [g \in Groups |-> [n \in Names |-> IF n \in installed THEN "old" ELSE "absent"]]

\* bundle["sagas.js"]: the modules subdirectories that hold a sagas.js
InitBundle ==
    /\ manifest \in Manifests
    /\ bundle \in [Groups \cup {"sagas.js"} -> SUBSET Names]
    /\ bundle["sagas.js"] \subseteq bundle["modules"]

InitRun ==
    /\ outcome = "idle"
    /\ reason = NoReason
    /\ started = {}
    /\ ok = {}
    /\ failed = {}
    /\ namespacesMeta = NoMeta
    /\ componentTree = NoTree
    /\ globalReducerSourceCode = <<>>
    /\ globalSagasSourceCode = <<>>
    /\ componentsIndexSourceCode = <<>>
    /\ indexWriteText = [n \in Names |-> <<>>]

InitHistory ==
    /\ run = 0
    /\ reducerWrites = 0
    /\ sagasWrites = 0

NoCall == [pc |-> "idle", namespacesMeta |-> NoMeta, tree |-> {},
           existingNamespaceDirs |-> <<>>, namespacesSrcDirPath |-> "-", reason |-> NoReason]

Init ==
    /\ InitProject
    /\ InitBundle
    /\ InitRun
    /\ InitHistory
    /\ pre = [c \in 1..MaxCalls |-> NoCall]

(* ------------------------------------------------------------------ *)
(* installFromLocalDir                                                 *)
(* ------------------------------------------------------------------ *)

\* keys of namespacesMeta.namespaces, as forOwn visits them
Keys == DOMAIN namespacesMeta.namespaces

\* the key forOwn visits last: moduleSagasFilePath, declared outside the
\* loop, holds its path when the sagas.js checks are made
LastKey == ListOf(Keys)[Len(ListOf(Keys))]

\* the next group of the copy chain
NextGroup(g) == IF g = "modules" THEN "defaults" ELSE "docs"

\* a call settles by resolving
Resolve(op) ==
    /\ op \in InFlight
    /\ ok' = ok \cup {op}
    /\ UNCHANGED failed

\* the caller invokes installFromLocalDir: commons.readJson is called
Invoke ==
    /\ outcome = "idle"
    /\ outcome' = "pending"
    /\ started' = {ReadJson}
    /\ run' = run + 1
    /\ UNCHANGED <<projectVars, bundleVars, reason, ok, failed, namespacesMeta, componentTree,
                   globalReducerSourceCode, globalSagasSourceCode, componentsIndexSourceCode,
                   indexWriteText, installed0, reducerWrites, sagasWrites, pre>>

\* Reject with the rejection of a removeFile swallowed by a local catch
RejectMasked(op) ==
    /\ op \in InFlight
    /\ failed' = failed \cup {op}
    /\ outcome' = IF outcome = "pending" /\ op[1] # "removeFile" THEN "failed" ELSE outcome
    /\ reason' = IF outcome = "pending" /\ op[1] # "removeFile" THEN op ELSE reason
    /\ UNCHANGED <<projectVars, bundleVars, started, ok, namespacesMeta, componentTree,
                   globalReducerSourceCode, globalSagasSourceCode, componentsIndexSourceCode,
                   indexWriteText, historyVars, pre>>

\* any call in flight may reject; the chain rejects with the first rejection,
\* a later rejection of a task left running changes nothing
Reject(op) ==
    /\ op \in InFlight
    /\ failed' = failed \cup {op}
    /\ outcome' = IF outcome = "pending" THEN "failed" ELSE outcome
    /\ reason' = IF outcome = "pending" THEN op ELSE reason
    /\ UNCHANGED <<projectVars, bundleVars, started, ok, namespacesMeta, componentTree,
                   globalReducerSourceCode, globalSagasSourceCode, componentsIndexSourceCode,
                   indexWriteText, historyVars, pre>>

\* ReadJsonOk with the project-index read started beside the dependency
\* install instead of after it
ReadJsonOkUnchained ==
    /\ Resolve(ReadJson)
    /\ manifest.present
    /\ namespacesMeta' = manifest
    /\ started' = started \cup {InstallDeps, GetTree}
    /\ UNCHANGED <<projectVars, bundleVars, outcome, reason, componentTree,
                   globalReducerSourceCode, globalSagasSourceCode, componentsIndexSourceCode,
                   indexWriteText, historyVars, pre>>

\* readJson resolves: namespacesMeta = metaObj, then storage.installDependencies
ReadJsonOk ==
    /\ Resolve(ReadJson)
    /\ manifest.present
    /\ namespacesMeta' = manifest
    /\ started' = started \cup {InstallDeps}
    /\ UNCHANGED <<projectVars, bundleVars, outcome, reason, componentTree,
                   globalReducerSourceCode, globalSagasSourceCode, componentsIndexSourceCode,
                   indexWriteText, historyVars, pre>>

\* installDependencies resolves, then storage.getComponentTree
InstallDepsOk ==
    /\ Resolve(InstallDeps)
    /\ started' = started \cup {GetTree}
    /\ UNCHANGED <<projectVars, bundleVars, outcome, reason, namespacesMeta, componentTree,
                   globalReducerSourceCode, globalSagasSourceCode, componentsIndexSourceCode,
                   indexWriteText, historyVars, pre>>

\* storage.getComponentTree(): the project's index as it is on disk now
getComponentTree ==
    [modules |-> IndexedNames(indexFile), reducersSourceCode |-> reducersFile,
     sagasSourceCode |-> sagasFile, indexSourceCode |-> indexFile]

\* GetTreeOk with a join of the rewrite tasks that resolves when its last task
\* does, and so never when there is no task
GetTreeOkHang ==
    /\ Resolve(GetTree)
    /\ componentTree' = getComponentTree
    /\ globalReducerSourceCode' = getComponentTree.reducersSourceCode
    /\ globalSagasSourceCode' = getComponentTree.sagasSourceCode
    /\ started' = started \cup {ChkReducer(n) : n \in Keys}
    /\ UNCHANGED <<projectVars, bundleVars, outcome, reason, namespacesMeta,
                   componentsIndexSourceCode, indexWriteText, historyVars, pre>>

\* getComponentTree resolves: the accumulators take the texts of the tree and
\* one rewrite task per manifest namespace starts with its reducer.js check;
\* with no namespace Promise.all resolves at once and the write-back starts
GetTreeOk ==
    /\ Resolve(GetTree)
    /\ componentTree' = getComponentTree
    /\ globalReducerSourceCode' = getComponentTree.reducersSourceCode
    /\ globalSagasSourceCode' = getComponentTree.sagasSourceCode
    /\ started' = started \cup (IF Keys = {} THEN {WriteReducers} ELSE {ChkReducer(n) : n \in Keys})
    /\ UNCHANGED <<projectVars, bundleVars, outcome, reason, namespacesMeta,
                   componentsIndexSourceCode, indexWriteText, historyVars, pre>>

\* isExisting(modules/n/reducer.js) resolves, then isExisting(moduleSagasFilePath):
\* the path of the sagas.js of the last namespace
ChkReducerOk(n) ==
    /\ Resolve(ChkReducer(n))
    /\ n \in bundle["modules"]
    /\ started' = started \cup {ChkSagas(n)}
    /\ UNCHANGED <<projectVars, bundleVars, outcome, reason, namespacesMeta, componentTree,
                   globalReducerSourceCode, globalSagasSourceCode, componentsIndexSourceCode,
                   indexWriteText, historyVars, pre>>

\* ChkSagasOk with each injection made into the text the tree was read with
\* instead of the accumulator
ChkSagasOkStale(n) ==
    /\ Resolve(ChkSagas(n))
    /\ LastKey \in bundle["sagas.js"]
    /\ globalReducerSourceCode' =
           injectReducer(componentTree.reducersSourceCode, namespacesMeta.namespaces[n],
                         ReducerIdent(namespacesMeta.namespaces[n]), ReducerPath(n))
    /\ globalSagasSourceCode' =
           injectSaga(componentTree.sagasSourceCode, SagasIdent(n), SagasPath(n))
    /\ started' = started \cup
           (IF outcome = "pending" /\ \A k \in Keys : ChkSagas(k) \in ok'
            THEN {WriteReducers} ELSE {})
    /\ UNCHANGED <<projectVars, bundleVars, outcome, reason, namespacesMeta, componentTree,
                   componentsIndexSourceCode, indexWriteText, historyVars, pre>>

\* ChkSagasOk with the injections skipped for a namespace the project's index
\* already holds
ChkSagasOkDedup(n) ==
    /\ Resolve(ChkSagas(n))
    /\ LastKey \in bundle["sagas.js"]
    /\ globalReducerSourceCode' =
           IF n \in componentTree.modules THEN globalReducerSourceCode
           ELSE injectReducer(globalReducerSourceCode, namespacesMeta.namespaces[n],
                              ReducerIdent(namespacesMeta.namespaces[n]), ReducerPath(n))
    /\ globalSagasSourceCode' =
           IF n \in componentTree.modules THEN globalSagasSourceCode
           ELSE injectSaga(globalSagasSourceCode, SagasIdent(n), SagasPath(n))
    /\ started' = started \cup
           (IF outcome = "pending" /\ \A k \in Keys : ChkSagas(k) \in ok'
            THEN {WriteReducers} ELSE {})
    /\ UNCHANGED <<projectVars, bundleVars, outcome, reason, namespacesMeta, componentTree,
                   componentsIndexSourceCode, indexWriteText, historyVars, pre>>

\* ChkSagasOk with the write-back started by every task after its own
\* injection instead of once after Promise.all
ChkSagasOkEager(n) ==
    /\ Resolve(ChkSagas(n))
    /\ LastKey \in bundle["sagas.js"]
    /\ globalReducerSourceCode' =
           injectReducer(globalReducerSourceCode, namespacesMeta.namespaces[n],
                         ReducerIdent(namespacesMeta.namespaces[n]), ReducerPath(n))
    /\ globalSagasSourceCode' = injectSaga(globalSagasSourceCode, SagasIdent(n), SagasPath(n))
    /\ started' = started \cup (IF outcome = "pending" THEN {WriteReducers} ELSE {})
    /\ UNCHANGED <<projectVars, bundleVars, outcome, reason, namespacesMeta, componentTree,
                   componentsIndexSourceCode, indexWriteText, historyVars, pre>>

\* ChkSagasOk with the two identifiers derived from the wrong names: the
\* reducer's from the namespace, the side-effect's from reducerPropName
ChkSagasOkSwapped(n) ==
    /\ Resolve(ChkSagas(n))
    /\ LastKey \in bundle["sagas.js"]
    /\ globalReducerSourceCode' =
           injectReducer(globalReducerSourceCode, namespacesMeta.namespaces[n],
                         ReducerIdent(n), ReducerPath(n))
    /\ globalSagasSourceCode' =
           injectSaga(globalSagasSourceCode, SagasIdent(namespacesMeta.namespaces[n]),
                      SagasPath(n))
    /\ IF outcome = "pending" /\ \A k \in Keys : ChkSagas(k) \in ok'
       THEN started' = started \cup {WriteReducers}
       ELSE UNCHANGED started
    /\ UNCHANGED <<projectVars, bundleVars, outcome, reason, namespacesMeta, componentTree,
                   componentsIndexSourceCode, indexWriteText, historyVars, pre>>

\* the sagas.js check of task n resolves, the file of the last namespace
\* being there: both injections of namespace n go
\* into the accumulators; when the last task is through, Promise.all resolves
\* and the reducer registry is written back
ChkSagasOk(n) ==
    /\ Resolve(ChkSagas(n))
    /\ LastKey \in bundle["sagas.js"]
    /\ globalReducerSourceCode' =
           injectReducer(globalReducerSourceCode, namespacesMeta.namespaces[n],
                         ReducerIdent(namespacesMeta.namespaces[n]), ReducerPath(n))
    /\ globalSagasSourceCode' = injectSaga(globalSagasSourceCode, SagasIdent(n), SagasPath(n))
    /\ started' = started \cup
           (IF outcome = "pending" /\ \A k \in Keys : ChkSagas(k) \in ok'
            THEN {WriteReducers} ELSE {})
    /\ UNCHANGED <<projectVars, bundleVars, outcome, reason, namespacesMeta, componentTree,
                   componentsIndexSourceCode, indexWriteText, historyVars, pre>>

\* writeFile(reducersFilePath, globalReducerSourceCode) resolves, then the
\* side-effect registry is written
WriteReducersOk ==
    /\ Resolve(WriteReducers)
    /\ reducersFile' = globalReducerSourceCode
    /\ reducerWrites' = reducerWrites + 1
    /\ started' = started \cup {WriteSagas}
    /\ UNCHANGED <<sagasFile, indexFile, dest, bundleVars, outcome, reason, namespacesMeta,
                   componentTree, globalReducerSourceCode, globalSagasSourceCode,
                   componentsIndexSourceCode, indexWriteText, run, installed0, sagasWrites, pre>>

\* writeFile(sagasFilePath, globalSagasSourceCode) resolves, then the modules
\* group is listed
WriteSagasOk ==
    /\ Resolve(WriteSagas)
    /\ sagasFile' = globalSagasSourceCode
    /\ sagasWrites' = sagasWrites + 1
    /\ started' = started \cup {ReadDir("modules")}
    /\ UNCHANGED <<reducersFile, indexFile, dest, bundleVars, outcome, reason, namespacesMeta,
                   componentTree, globalReducerSourceCode, globalSagasSourceCode,
                   componentsIndexSourceCode, indexWriteText, run, installed0, reducerWrites, pre>>

\* Promise.all of group g resolves when its last task does: the next group is
\* listed, and after docs the chain resolves
GroupDone(g) ==
    /\ outcome' = IF g = "docs" THEN "done" ELSE outcome
    /\ started' = IF g = "docs" THEN started ELSE started \cup {ReadDir(NextGroup(g))}

\* ReadDirOk without the test for an empty listing: Promise.all of no task
\* resolves at once
ReadDirOkNoCheck(g) ==
    /\ Resolve(ReadDir(g))
    /\ IF bundle[g] = {}
       THEN /\ GroupDone(g)
            /\ UNCHANGED <<reason, componentsIndexSourceCode>>
       ELSE /\ started' = started \cup {Remove(g, n) : n \in bundle[g]}
            /\ componentsIndexSourceCode' =
                   IF g = "defaults" THEN componentTree.indexSourceCode
                   ELSE componentsIndexSourceCode
            /\ UNCHANGED <<outcome, reason>>
    /\ UNCHANGED <<projectVars, bundleVars, namespacesMeta, componentTree,
                   globalReducerSourceCode, globalSagasSourceCode, indexWriteText,
                   historyVars, pre>>

\* ReadDirOk that also throws when a manifest namespace has no subdirectory
\* in the group
ReadDirOkDeclared(g) ==
    /\ Resolve(ReadDir(g))
    /\ IF bundle[g] = {} \/ ~(Keys \subseteq bundle[g])
       THEN /\ outcome' = "failed"
            /\ reason' = EmptyError(g)
            /\ UNCHANGED <<started, componentsIndexSourceCode>>
       ELSE /\ started' = started \cup {Remove(g, n) : n \in bundle[g]}
            /\ componentsIndexSourceCode' =
                   IF g = "defaults" THEN componentTree.indexSourceCode
                   ELSE componentsIndexSourceCode
            /\ UNCHANGED <<outcome, reason>>
    /\ UNCHANGED <<projectVars, bundleVars, namespacesMeta, componentTree,
                   globalReducerSourceCode, globalSagasSourceCode, indexWriteText,
                   historyVars, pre>>

\* ReadDirOk with copyFile called beside removeFile instead of in its
\* then-reaction
ReadDirOkUnchained(g) ==
    /\ Resolve(ReadDir(g))
    /\ IF bundle[g] = {}
       THEN /\ outcome' = "failed"
            /\ reason' = EmptyError(g)
            /\ UNCHANGED <<started, componentsIndexSourceCode>>
       ELSE /\ started' = started \cup {Remove(g, n) : n \in bundle[g]}
                                  \cup {Copy(g, n) : n \in bundle[g]}
            /\ componentsIndexSourceCode' =
                   IF g = "defaults" THEN componentTree.indexSourceCode
                   ELSE componentsIndexSourceCode
            /\ UNCHANGED <<outcome, reason>>
    /\ UNCHANGED <<projectVars, bundleVars, namespacesMeta, componentTree,
                   globalReducerSourceCode, globalSagasSourceCode, indexWriteText,
                   historyVars, pre>>

\* ReadDirOk with the listing filtered by the manifest: only the
\* subdirectories of declared namespaces get a copy task
ReadDirOkFiltered(g) ==
    /\ Resolve(ReadDir(g))
    /\ IF bundle[g] = {}
       THEN /\ outcome' = "failed"
            /\ reason' = EmptyError(g)
            /\ UNCHANGED <<started, componentsIndexSourceCode>>
       ELSE /\ IF bundle[g] \cap Keys = {}
               THEN GroupDone(g)
               ELSE /\ started' = started \cup {Remove(g, n) : n \in bundle[g] \cap Keys}
                    /\ UNCHANGED outcome
            /\ componentsIndexSourceCode' =
                   IF g = "defaults" THEN componentTree.indexSourceCode
                   ELSE componentsIndexSourceCode
            /\ UNCHANGED reason
    /\ UNCHANGED <<projectVars, bundleVars, namespacesMeta, componentTree,
                   globalReducerSourceCode, globalSagasSourceCode, indexWriteText,
                   historyVars, pre>>

\* readDirectoryFlat of group g resolves: no subdirectory throws the group's
\* error; otherwise one copy task per subdirectory starts with removeFile
ReadDirOk(g) ==
    /\ Resolve(ReadDir(g))
    /\ IF bundle[g] = {}
       THEN /\ outcome' = "failed"
            /\ reason' = EmptyError(g)
            /\ UNCHANGED <<started, componentsIndexSourceCode>>
       ELSE /\ started' = started \cup {Remove(g, n) : n \in bundle[g]}
            /\ componentsIndexSourceCode' =
                   IF g = "defaults" THEN componentTree.indexSourceCode
                   ELSE componentsIndexSourceCode
            /\ UNCHANGED <<outcome, reason>>
    /\ UNCHANGED <<projectVars, bundleVars, namespacesMeta, componentTree,
                   globalReducerSourceCode, globalSagasSourceCode, indexWriteText,
                   historyVars, pre>>

\* commons.copyFile into a destination: a directory that is still there keeps
\* what the bundle does not overwrite
CopyInto(content) == IF content = "absent" THEN "bundle" ELSE "merged"

\* RemoveOk of a task that is cancelled once the invocation has rejected
RemoveOkCancelled(g, n) ==
    /\ outcome = "pending"
    /\ Resolve(Remove(g, n))
    /\ dest' = [dest EXCEPT ![g][n] = "absent"]
    /\ started' = started \cup {Copy(g, n)}
    /\ UNCHANGED <<reducersFile, sagasFile, indexFile, bundleVars, outcome, reason,
                   namespacesMeta, componentTree, globalReducerSourceCode,
                   globalSagasSourceCode, componentsIndexSourceCode, indexWriteText,
                   historyVars, pre>>

\* removeFile(destDirPath) resolves, then copyFile
RemoveOk(g, n) ==
    /\ Resolve(Remove(g, n))
    /\ dest' = [dest EXCEPT ![g][n] = "absent"]
    /\ started' = started \cup {Copy(g, n)}
    /\ UNCHANGED <<reducersFile, sagasFile, indexFile, bundleVars, outcome, reason,
                   namespacesMeta, componentTree, globalReducerSourceCode,
                   globalSagasSourceCode, componentsIndexSourceCode, indexWriteText,
                   historyVars, pre>>

\* CopyOk with the group joined on its first task instead of on all of them
CopyOkRace(g, n) ==
    /\ g # "defaults"
    /\ Resolve(Copy(g, n))
    /\ dest' = [dest EXCEPT ![g][n] = CopyInto(@)]
    /\ IF outcome = "pending"
       THEN GroupDone(g)
       ELSE UNCHANGED <<outcome, started>>
    /\ UNCHANGED <<reducersFile, sagasFile, indexFile, bundleVars, reason,
                   namespacesMeta, componentTree, globalReducerSourceCode,
                   globalSagasSourceCode, componentsIndexSourceCode, indexWriteText,
                   historyVars, pre>>

\* copyFile of a modules or docs task resolves
CopyOk(g, n) ==
    /\ g # "defaults"
    /\ Resolve(Copy(g, n))
    /\ dest' = [dest EXCEPT ![g][n] = CopyInto(@)]
    /\ IF outcome = "pending" /\ \A m \in bundle[g] : Copy(g, m) \in ok'
       THEN GroupDone(g)
       ELSE UNCHANGED <<outcome, started>>
    /\ UNCHANGED <<reducersFile, sagasFile, indexFile, bundleVars, reason,
                   namespacesMeta, componentTree, globalReducerSourceCode,
                   globalSagasSourceCode, componentsIndexSourceCode, indexWriteText,
                   historyVars, pre>>

\* path.join(defaultsDestDirPath, dirItem.name)
DefaultsDestPath(name) == <<"defaults", name>>

\* CopyDefaultsOk with the destination path of the defaults directory given
\* to the injection
CopyDefaultsOkDestPath(n) ==
    /\ Resolve(Copy("defaults", n))
    /\ dest' = [dest EXCEPT !["defaults"][n] = CopyInto(@)]
    /\ componentsIndexSourceCode' =
           injectNamespaceComponent(componentsIndexSourceCode, n, DefaultsDestPath(n))
    /\ indexWriteText' = [indexWriteText EXCEPT ![n] = componentsIndexSourceCode']
    /\ started' = started \cup {WriteIndex(n)}
    /\ UNCHANGED <<reducersFile, sagasFile, indexFile, bundleVars, outcome, reason,
                   namespacesMeta, componentTree, globalReducerSourceCode,
                   globalSagasSourceCode, historyVars, pre>>

\* copyFile of a defaults task resolves: the index accumulator takes the
\* namespace and writeFile(indexFilePath, componentsIndexSourceCode) is called
\* with the accumulator's text of this moment
CopyDefaultsOk(n) ==
    /\ Resolve(Copy("defaults", n))
    /\ dest' = [dest EXCEPT !["defaults"][n] = CopyInto(@)]
    /\ componentsIndexSourceCode' =
           injectNamespaceComponent(componentsIndexSourceCode, n, ComponentPath(n))
    /\ indexWriteText' = [indexWriteText EXCEPT ![n] = componentsIndexSourceCode']
    /\ started' = started \cup {WriteIndex(n)}
    /\ UNCHANGED <<reducersFile, sagasFile, indexFile, bundleVars, outcome, reason,
                   namespacesMeta, componentTree, globalReducerSourceCode,
                   globalSagasSourceCode, historyVars, pre>>

\* the index writeFile of task n resolves: the file holds the text that call
\* was given; the writes of the tasks land in any order
WriteIndexOk(n) ==
    /\ Resolve(WriteIndex(n))
    /\ indexFile' = indexWriteText[n]
    /\ IF outcome = "pending" /\ \A m \in bundle["defaults"] : WriteIndex(m) \in ok'
       THEN GroupDone("defaults")
       ELSE UNCHANGED <<outcome, started>>
    /\ UNCHANGED <<reducersFile, sagasFile, dest, bundleVars, reason,
                   namespacesMeta, componentTree, globalReducerSourceCode,
                   globalSagasSourceCode, componentsIndexSourceCode, indexWriteText,
                   historyVars, pre>>

\* the caller, holding the result of one invocation and with none of its
\* tasks still running, invokes installFromLocalDir again
Reinvoke ==
    /\ outcome \in {"done", "failed"}
    /\ InFlight = {}
    /\ run < MaxRuns
    /\ outcome' = "pending"
    /\ reason' = NoReason
    /\ started' = {ReadJson}
    /\ ok' = {}
    /\ failed' = {}
    /\ namespacesMeta' = NoMeta
    /\ componentTree' = NoTree
    /\ globalReducerSourceCode' = <<>>
    /\ globalSagasSourceCode' = <<>>
    /\ componentsIndexSourceCode' = <<>>
    /\ indexWriteText' = [n \in Names |-> <<>>]
    /\ run' = run + 1
    /\ UNCHANGED <<projectVars, bundleVars, installed0, reducerWrites, sagasWrites, pre>>

\* one completion of a call of the invocation in progress
Step ==
    \/ \E op \in InFlight : Reject(op)
    \/ ReadJsonOk
    \/ InstallDepsOk
    \/ GetTreeOk
    \/ \E n \in Names : ChkReducerOk(n)
    \/ \E n \in Names : ChkSagasOk(n)
    \/ WriteReducersOk
    \/ WriteSagasOk
    \/ \E g \in Groups : ReadDirOk(g)
    \/ \E g \in Groups, n \in Names : RemoveOk(g, n)
    \/ \E g \in Groups, n \in Names : CopyOk(g, n)
    \/ \E n \in Names : CopyDefaultsOk(n)
    \/ \E n \in Names : WriteIndexOk(n)

\* one invocation of installFromLocalDir on any project and bundle
Next ==
    \/ Invoke
    \/ Step

Spec == Init /\ [][Next]_vars

\* one invocation in which every call that was made eventually settles
SpecLive == Init /\ [][Next]_vars /\ WF_vars(Step)

\* a bundle that holds every group of the namespaces its manifest names,
\* installed more than once into a project that held none of them
InitRerun ==
    /\ Init
    /\ manifest.shaped
    /\ DOMAIN manifest.namespaces # {}
    /\ bundle = [g \in Groups \cup {"sagas.js"} |-> DOMAIN manifest.namespaces]
    /\ installed0 = {}

NextRerun ==
    \/ Invoke
    \/ Step
    \/ Reinvoke

SpecRerun == InitRerun /\ [][NextRerun]_vars

(* ------------------------------------------------------------------ *)
(* preInstall                                                          *)
(* ------------------------------------------------------------------ *)

PreReadJson == <<"readJson", "structor-namespaces.json", "-">>

PreGetTree == <<"getComponentTree", "project", "-">>

PreReadDir == <<"readDirectoryFlat", "modules", "-">>

\* the asynchronous call a preInstall call is waiting for
PreOp(c) ==
    IF pre[c].pc = "readJson" THEN PreReadJson
    ELSE IF pre[c].pc = "getTree" THEN PreGetTree
    ELSE PreReadDir

\* the caller invokes preInstall with a dirPath, or with a url only: then
\* namespacesSrcDirPath stays undefined and path.join throws in the first
\* reaction
PreInvoke(c, option) ==
    /\ pre[c].pc = "idle"
    /\ pre' = [pre EXCEPT ![c] =
           IF option = "dirPath"
           THEN [@ EXCEPT !.pc = "readJson", !.namespacesSrcDirPath = "dirPath"]
           ELSE [@ EXCEPT !.pc = "failed", !.reason = TypeError]]
    /\ UNCHANGED <<projectVars, bundleVars, runVars, historyVars>>

\* the call in flight of a preInstall call rejects
PreReject(c) ==
    /\ pre[c].pc \in {"readJson", "getTree", "readDir"}
    /\ pre' = [pre EXCEPT ![c] = [@ EXCEPT !.pc = "failed", !.reason = PreOp(c)]]
    /\ UNCHANGED <<projectVars, bundleVars, runVars, historyVars>>

\* readJson resolves: namespacesMeta = metaObj, then storage.getComponentTree
PreReadJsonOk(c) ==
    /\ pre[c].pc = "readJson"
    /\ manifest.present
    /\ pre' = [pre EXCEPT ![c] = [@ EXCEPT !.pc = "getTree", !.namespacesMeta = manifest]]
    /\ UNCHANGED <<projectVars, bundleVars, runVars, historyVars>>

\* getComponentTree resolves: componentTree = tree, then readDirectoryFlat
PreGetTreeOk(c) ==
    /\ pre[c].pc = "getTree"
    /\ pre' = [pre EXCEPT ![c] = [@ EXCEPT !.pc = "readDir", !.tree = getComponentTree.modules]]
    /\ UNCHANGED <<projectVars, bundleVars, runVars, historyVars>>

\* the modules directories that componentTree.modules holds, in listing order
ExistingDirs(modulesDirs, modules) == SelectSeq(modulesDirs, LAMBDA name : name \in modules)

\* the longest list a finished call has returned
SharedDirs ==
    IF \E d \in 1..MaxCalls : pre[d].pc = "done"
    THEN pre[CHOOSE d \in 1..MaxCalls :
                 /\ pre[d].pc = "done"
                 /\ \A e \in 1..MaxCalls :
                        pre[e].pc = "done" =>
                            Len(pre[e].existingNamespaceDirs) <= Len(pre[d].existingNamespaceDirs)
            ].existingNamespaceDirs
    ELSE <<>>

\* PreReadDirOk with existingNamespaceDirs kept at module level, one array
\* for all calls
PreReadDirOkShared(c) ==
    /\ pre[c].pc = "readDir"
    /\ pre' = [pre EXCEPT ![c] =
           IF Len(ListOf(bundle["modules"])) <= 0
           THEN [@ EXCEPT !.pc = "failed", !.reason = EmptyError("modules")]
           ELSE [@ EXCEPT !.pc = "done",
                          !.existingNamespaceDirs =
                              SharedDirs \o ExistingDirs(ListOf(bundle["modules"]), pre[c].tree)]]
    /\ UNCHANGED <<projectVars, bundleVars, runVars, historyVars>>

\* PreReadDirOk that walks the namespaces of the manifest instead of the
\* directories found
PreReadDirOkManifest(c) ==
    /\ pre[c].pc = "readDir"
    /\ pre' = [pre EXCEPT ![c] =
           IF Len(ListOf(bundle["modules"])) <= 0
           THEN [@ EXCEPT !.pc = "failed", !.reason = EmptyError("modules")]
           ELSE [@ EXCEPT !.pc = "done",
                          !.existingNamespaceDirs =
                              ExistingDirs(ListOf(DOMAIN pre[c].namespacesMeta.namespaces),
                                           pre[c].tree)]]
    /\ UNCHANGED <<projectVars, bundleVars, runVars, historyVars>>

\* PreReadDirOk with the test dirs.length < 0
PreReadDirOkLax(c) ==
    /\ pre[c].pc = "readDir"
    /\ pre' = [pre EXCEPT ![c] =
           IF Len(ListOf(bundle["modules"])) < 0
           THEN [@ EXCEPT !.pc = "failed", !.reason = EmptyError("modules")]
           ELSE [@ EXCEPT !.pc = "done",
                          !.existingNamespaceDirs =
                              ExistingDirs(ListOf(bundle["modules"]), pre[c].tree)]]
    /\ UNCHANGED <<projectVars, bundleVars, runVars, historyVars>>

\* readDirectoryFlat resolves: no subdirectory throws; otherwise the plan is
\* returned
PreReadDirOk(c) ==
    /\ pre[c].pc = "readDir"
    /\ pre' = [pre EXCEPT ![c] =
           IF Len(ListOf(bundle["modules"])) <= 0
           THEN [@ EXCEPT !.pc = "failed", !.reason = EmptyError("modules")]
           ELSE [@ EXCEPT !.pc = "done",
                          !.existingNamespaceDirs =
                              ExistingDirs(ListOf(bundle["modules"]), pre[c].tree)]]
    /\ UNCHANGED <<projectVars, bundleVars, runVars, historyVars>>

\* preInstall calls on a project and a bundle that nothing else touches
NextPre ==
    \/ \E c \in 1..MaxCalls, option \in {"dirPath", "url"} : PreInvoke(c, option)
    \/ \E c \in 1..MaxCalls : PreReject(c)
    \/ \E c \in 1..MaxCalls : PreReadJsonOk(c)
    \/ \E c \in 1..MaxCalls : PreGetTreeOk(c)
    \/ \E c \in 1..MaxCalls : PreReadDirOk(c)

\* preInstall looks at no file inside the modules directories
InitPre ==
    /\ Init
    /\ bundle["sagas.js"] = bundle["modules"]

SpecPre == InitPre /\ [][NextPre]_vars

(* ------------------------------------------------------------------ *)
(* Stages of installFromLocalDir                                       *)
(* ------------------------------------------------------------------ *)

\* position of a group in the copy chain
GroupStage(g) == IF g = "modules" THEN 5 ELSE IF g = "defaults" THEN 6 ELSE 7

\* stage of a call: 1 manifest read, 2 dependency install, 3 project-index
\* read, 4 injection with write-back, 5 modules, 6 defaults, 7 docs
Stage(op) ==
    IF op[1] = "readJson" THEN 1
    ELSE IF op[1] = "installDependencies" THEN 2
    ELSE IF op[1] = "getComponentTree" THEN 3
    ELSE IF op[1] = "isExisting" THEN 4
    ELSE IF op[1] = "writeFile" THEN (IF op[2] = "index" THEN 6 ELSE 4)
    ELSE GroupStage(op[2])

\* the calls a stage consists of, for the manifest and the bundle at hand
StageOps(s) ==
    IF s = 1 THEN {ReadJson}
    ELSE IF s = 2 THEN {InstallDeps}
    ELSE IF s = 3 THEN {GetTree}
    ELSE IF s = 4 THEN {ChkReducer(n) : n \in DOMAIN manifest.namespaces}
                       \cup {ChkSagas(n) : n \in DOMAIN manifest.namespaces}
                       \cup {WriteReducers, WriteSagas}
    ELSE IF s = 5 THEN {ReadDir("modules")} \cup {Remove("modules", n) : n \in bundle["modules"]}
                       \cup {Copy("modules", n) : n \in bundle["modules"]}
    ELSE IF s = 6 THEN {ReadDir("defaults")} \cup {Remove("defaults", n) : n \in bundle["defaults"]}
                       \cup {Copy("defaults", n) : n \in bundle["defaults"]}
                       \cup {WriteIndex(n) : n \in bundle["defaults"]}
    ELSE {ReadDir("docs")} \cup {Remove("docs", n) : n \in bundle["docs"]}
         \cup {Copy("docs", n) : n \in bundle["docs"]}

\* the project as it was before the first invocation
InitialDest == [g \in Groups |-> [n \in Names |-> IF n \in installed0 THEN "old" ELSE "absent"]]

ProjectUntouched ==
    /\ reducersFile = ReducersOf(ListOf(installed0))
    /\ sagasFile = SagasOf(ListOf(installed0))
    /\ indexFile = IndexOf(ListOf(installed0))
    /\ dest = InitialDest

(* ------------------------------------------------------------------ *)
(* Claims                                                              *)
(* ------------------------------------------------------------------ *)

\* C1: the stages run in the fixed order manifest read, dependency install,
\* project-index read, injection with write-back, modules, defaults, docs: a
\* call of a stage has been made only if every call of every earlier stage
\* has resolved.
C1_StagesInOrder ==
    \A op \in started : \A s \in 1..(Stage(op) - 1) : StageOps(s) \subseteq ok

\* C1 witness: a run over two manifest namespaces and two directories in
\* every group went through all seven stages.
C1_Witness ==
    /\ outcome = "done"
    /\ DOMAIN manifest.namespaces = Names
    /\ \A g \in Groups : bundle[g] = Names

\* C2: when the dependency install rejects, the invocation is rejected with
\* that error and nothing was written, removed or copied.
C2_DepsFailureMutatesNothing ==
    InstallDeps \in failed =>
        /\ outcome = "failed"
        /\ reason = InstallDeps
        /\ ProjectUntouched
        /\ \A op \in started : op[1] \notin {"writeFile", "removeFile", "copyFile"}

\* C2 witness: the dependency install of a run on a project that holds a
\* namespace rejected.
C2_Witness ==
    /\ InstallDeps \in failed
    /\ installed0 # {}
    /\ DOMAIN manifest.namespaces # {}

\* C3: a group with no subdirectory makes the invocation fail: the run never
\* resolves, nothing of that group or of a later one is copied, and once the
\* group has been listed the rejection is that group's empty-directory error
\* while every directory of the earlier groups is in place as copied.
C3_EmptyGroupRejected ==
    \A g \in Groups :
        bundle[g] = {} =>
            /\ outcome # "done"
            /\ \A h \in Groups, n \in Names :
                   GroupStage(h) >= GroupStage(g) =>
                       /\ Copy(h, n) \notin started
                       /\ dest[h][n] = InitialDest[h][n]
            /\ ReadDir(g) \in ok =>
                   /\ outcome = "failed"
                   /\ reason = EmptyError(g)
                   /\ \A h \in Groups : \A n \in bundle[h] :
                          GroupStage(h) < GroupStage(g) => dest[h][n] = "bundle"

\* C3 witness: the docs group was listed and found empty after two modules
\* directories and a defaults directory had been copied.
C3_Witness ==
    /\ bundle["docs"] = {}
    /\ ReadDir("docs") \in ok
    /\ bundle["modules"] = Names
    /\ bundle["defaults"] # {}

\* stage in which the invocation failed
FailStage == IF reason[1] = "Error" THEN GroupStage(reason[2]) ELSE Stage(reason)

\* errors thrown by the chain itself so far
Thrown == {EmptyError(g) : g \in {h \in Groups : ReadDir(h) \in ok /\ bundle[h] = {}}}

\* a step that takes back nothing of what the stages before the failing one
\* left on disk, and no copied directory at all
NothingUndone ==
    /\ reducersFile' = reducersFile
    /\ sagasFile' = sagasFile
    /\ \A g \in Groups, n \in Names : dest[g][n] = "bundle" => dest'[g][n] = "bundle"
    /\ \A g \in Groups : GroupStage(g) < FailStage => dest'[g] = dest[g]
    /\ FailStage > 6 => indexFile' = indexFile

\* C4: once a call of a stage has rejected, no call of a later stage is ever
\* made; the caller gets a rejection whose reason is the first error, that of
\* the failing call, and it never changes; no call is made a second time; and
\* after the failure nothing already applied is taken back.
C4_FailureIsFinal ==
    /\ [](\A f \in failed, op \in started : Stage(op) <= Stage(f))
    /\ [](outcome = "failed" => \A op \in started : Stage(op) <= FailStage)
    /\ [](failed # {} => outcome = "failed")
    /\ [](outcome = "failed" => reason \in failed \cup Thrown)
    /\ [][failed = {} /\ failed' # {} => reason' \in failed']_vars
    /\ [][outcome = "failed" => outcome' = "failed" /\ reason' = reason]_vars
    /\ [][started \subseteq started' /\ ok \subseteq ok' /\ failed \subseteq failed'
          /\ ok' \cap failed' = {}]_vars
    /\ [][outcome = "failed" => NothingUndone]_vars

\* C4 witness: the run was rejected with the error of a docs copy, a second
\* task of the group rejected after it, and the modules directories remain.
C4_Witness ==
    /\ outcome = "failed"
    /\ \E n \in Names : reason = Copy("docs", n)
    /\ Cardinality(failed) = 2
    /\ \A n \in Names : dest["modules"][n] = "bundle"

\* a text that starts with another
IsPrefix(a, b) == Len(a) <= Len(b) /\ SubSeq(b, 1, Len(a)) = a

\* the lines of a text after those of the text it starts with
NewLines(old, text) == SubSeq(text, Len(old) + 1, Len(text))

\* manifest namespaces that carry the reducerPropName p
KeysWithProp(p) == {k \in DOMAIN manifest.namespaces : manifest.namespaces[k] = p}

\* C5: after a successful install of a bundle that holds modules/N, defaults/N
\* and docs/N for every manifest namespace N into a project whose index held
\* none of the bundle's namespaces, the three destinations hold the copy of
\* every N, and the reducer registry and the side-effect registry on disk are
\* the texts that were read plus exactly one import line and one registration
\* entry per manifest namespace.
C5_SuccessfulInstall ==
    (/\ outcome = "done"
     /\ componentTree.modules \cap (DOMAIN manifest.namespaces \cup UNION {bundle[g] : g \in Groups}) = {}
     /\ \A g \in Groups : DOMAIN manifest.namespaces \subseteq bundle[g])
    =>
    /\ \A g \in Groups, N \in DOMAIN manifest.namespaces : dest[g][N] = "bundle"
    /\ IsPrefix(componentTree.reducersSourceCode, reducersFile)
    /\ IsPrefix(componentTree.sagasSourceCode, sagasFile)
    /\ Len(NewLines(componentTree.reducersSourceCode, reducersFile))
           = 2 * Cardinality(DOMAIN manifest.namespaces)
    /\ Len(NewLines(componentTree.sagasSourceCode, sagasFile))
           = 2 * Cardinality(DOMAIN manifest.namespaces)
    /\ \A N \in DOMAIN manifest.namespaces :
           /\ CountImports(NewLines(componentTree.reducersSourceCode, reducersFile),
                           ReducerPath(N)) = 1
           /\ CountEntries(NewLines(componentTree.reducersSourceCode, reducersFile),
                           ReducerIdent(manifest.namespaces[N]))
                  = Cardinality(KeysWithProp(manifest.namespaces[N]))
           /\ CountImports(NewLines(componentTree.sagasSourceCode, sagasFile), SagasPath(N)) = 1
           /\ CountEntries(NewLines(componentTree.sagasSourceCode, sagasFile), SagasIdent(N)) = 1

\* C5 witness: two namespaces were installed into a project that held neither.
C5_Witness ==
    /\ outcome = "done"
    /\ DOMAIN manifest.namespaces = Names
    /\ \A g \in Groups : bundle[g] = Names
    /\ componentTree.modules = {}

\* C6: after a successful install the component index on disk holds an entry
\* for every subdirectory of the bundle's defaults group.
C6_IndexHoldsEveryDefault ==
    outcome = "done" => bundle["defaults"] \subseteq IndexedNames(indexFile)

\* elements of a list
Range(list) == {list[i] : i \in DOMAIN list}

\* C7: preInstall is a dry run: no step of any call changes the project or
\* the bundle on disk, and all calls that return, made one after another or
\* interleaved, return the same namespacesSrcDirPath and the same
\* existingNamespaceDirs.
C7_DryRunPure ==
    /\ [][UNCHANGED <<projectVars, bundleVars>>]_vars
    /\ [](\A c, d \in 1..MaxCalls :
              pre[c].pc = "done" /\ pre[d].pc = "done" =>
                  /\ pre[c].namespacesSrcDirPath = pre[d].namespacesSrcDirPath
                  /\ pre[c].existingNamespaceDirs = pre[d].existingNamespaceDirs)

\* C7 witness: two calls returned a plan that names a namespace, the second
\* having started before the first returned or after it.
C7_Witness ==
    /\ \A c \in 1..2 : pre[c].pc = "done" /\ pre[c].existingNamespaceDirs # <<>>
    /\ dest["modules"]["auth"] = "old"

\* C8: a call that returns names in existingNamespaceDirs exactly the
\* namespaces that are a subdirectory of the bundle's modules directory and a
\* key of the project index's modules, whatever the manifest names.
C8_CollisionDetection ==
    \A c \in 1..MaxCalls :
        pre[c].pc = "done" =>
            \A N \in Names :
                N \in Range(pre[c].existingNamespaceDirs)
                    <=> (N \in bundle["modules"] /\ N \in getComponentTree.modules)

\* C8 witness: a call returned one of two module directories for a manifest
\* that names the other one only.
C8_Witness ==
    \E c \in 1..MaxCalls :
        /\ pre[c].pc = "done"
        /\ bundle["modules"] = Names
        /\ pre[c].existingNamespaceDirs = <<"auth">>
        /\ DOMAIN manifest.namespaces = {"blog"}

\* C9: with no subdirectory in the bundle's modules directory no call returns
\* a plan, and the call that has listed the directory is rejected with the
\* empty-modules-directory error (with the listing's own error when the
\* listing rejects).
C9_EmptyModulesRejected ==
    /\ [](bundle["modules"] = {} =>
              \A c \in 1..MaxCalls :
                  pre[c].pc # "done" /\ pre[c].existingNamespaceDirs = <<>>)
    /\ [][\A c \in 1..MaxCalls :
              (bundle["modules"] = {} /\ pre[c].pc = "readDir" /\ pre'[c] # pre[c]) =>
                  /\ pre'[c].pc = "failed"
                  /\ pre'[c].reason \in {EmptyError("modules"), PreReadDir}]_vars

\* C9 witness: a call was rejected with the empty-modules-directory error.
C9_Witness ==
    \E c \in 1..MaxCalls :
        /\ pre[c].pc = "failed"
        /\ pre[c].reason = EmptyError("modules")
        /\ bundle["modules"] = {}

\* reducer-registry lines for namespace N before the first invocation
InitialReducerImports(N) == CountImports(ReducersOf(ListOf(installed0)), ReducerPath(N))

\* C10: every invocation that gets to write the registries back injects every
\* manifest namespace again: after k write-backs the reducer registry, and
\* likewise the side-effect registry, holds k import lines and k registration
\* entries for the namespace, two after the second run.
C10_ReinstallDuplicates ==
    \A N \in DOMAIN manifest.namespaces :
        /\ CountImports(reducersFile, ReducerPath(N)) = InitialReducerImports(N) + reducerWrites
        /\ CountEntries(reducersFile, ReducerIdent(manifest.namespaces[N]))
               = CountEntries(ReducersOf(ListOf(installed0)), ReducerIdent(manifest.namespaces[N]))
                 + reducerWrites * Cardinality(KeysWithProp(manifest.namespaces[N]))
        /\ CountImports(sagasFile, SagasPath(N))
               = CountImports(SagasOf(ListOf(installed0)), SagasPath(N)) + sagasWrites
        /\ CountEntries(sagasFile, SagasIdent(N))
               = CountEntries(SagasOf(ListOf(installed0)), SagasIdent(N)) + sagasWrites

\* C10 witness: the second run of the same bundle has resolved and both
\* registries hold two import lines for a namespace.
C10_Witness ==
    /\ run = 2
    /\ outcome = "done"
    /\ CountImports(reducersFile, ReducerPath("auth")) = 2
    /\ CountImports(sagasFile, SagasPath("auth")) = 2

\* C11 as claimed: a manifest namespace without a subdirectory in a group
\* keeps every subdirectory of that group from being copied.
C11_MissingDirRejectsGroup ==
    \A g \in Groups :
        (\E N \in DOMAIN manifest.namespaces : N \notin bundle[g]) =>
            \A n \in Names : Copy(g, n) \notin ok /\ dest[g][n] # "bundle"

\* C11 amended: only a group without any subdirectory is rejected wholesale.
\* A listed group that has a subdirectory is not rejected by its listing and
\* a copy task is started for every one of its subdirectories, whatever the
\* manifest declares; when the run resolves they are all in place. A manifest
\* namespace without a modules subdirectory stops the run at its reducer.js
\* check, before anything is copied.
C11_OnlyEmptyGroupRejected ==
    /\ \A g \in Groups :
           (ReadDir(g) \in ok /\ bundle[g] # {}) =>
               /\ reason # EmptyError(g)
               /\ \A n \in bundle[g] : Remove(g, n) \in started
               /\ outcome = "done" => \A n \in bundle[g] : dest[g][n] = "bundle"
    /\ (\E N \in DOMAIN manifest.namespaces : N \notin bundle["modules"]) =>
           \A op \in started : op[1] \notin {"writeFile", "removeFile", "copyFile"}

\* C11 witness: the run resolved and copied defaults/auth although the
\* manifest declares blog and the bundle has no defaults/blog.
C11_Witness ==
    /\ outcome = "done"
    /\ "blog" \in DOMAIN manifest.namespaces
    /\ bundle["defaults"] = {"auth"}
    /\ dest["defaults"]["auth"] = "bundle"

\* C12: with the manifest file absent, or present without a namespaces map
\* and a dependency list, the invocation is rejected with the error of the
\* manifest read and nothing else has been called or changed: no dependency
\* install, no write, no removal, no copy.
C12_BadManifestNoSideEffect ==
    (~manifest.present \/ ~manifest.shaped) =>
        /\ outcome # "done"
        /\ started \subseteq {ReadJson}
        /\ ProjectUntouched
        /\ ReadJson \in ok \cup failed => outcome = "failed" /\ reason = ReadJson

\* lines the run has injected into the component index so far
IndexInjected == NewLines(componentTree.indexSourceCode, componentsIndexSourceCode)

\* import lines among the injected index lines that bring in namespace n
\* from importPath
IndexImports(n, importPath) ==
    {i \in DOMAIN IndexInjected :
        /\ IndexInjected[i].kind = "import"
        /\ IndexInjected[i].id = <<n>>
        /\ IndexInjected[i].path = importPath}

\* C13 as claimed: the index entry injected for the defaults subdirectory N
\* maps N to the defaults path of N.
C13_IndexEntryDefaultsPath ==
    \A n \in Names :
        Copy("defaults", n) \in ok => IndexImports(n, DefaultsDestPath(n)) # {}

\* C13 amended: the index entry injected for the defaults subdirectory N maps
\* N to the modules path of N, modules/N: one import line with that path and
\* one registration entry for N, and no line with any other path.
C13_IndexEntryModulesPath ==
    \A n \in Names :
        Copy("defaults", n) \in ok =>
            /\ Cardinality(IndexImports(n, ComponentPath(n))) = 1
            /\ \A i \in DOMAIN IndexInjected :
                   (IndexInjected[i].kind = "import" /\ IndexInjected[i].id = <<n>>) =>
                       IndexInjected[i].path = ComponentPath(n)
            /\ Cardinality({i \in DOMAIN IndexInjected :
                               IndexInjected[i].kind = "entry" /\ IndexInjected[i].key = n}) = 1

\* C13 witness: the entries of two defaults subdirectories were injected and
\* the index was written.
C13_Witness ==
    /\ \A n \in Names : WriteIndex(n) \in ok
    /\ outcome = "done"

\* manifest namespaces whose rewrite task has made its injections
InjectedTasks == {n \in DOMAIN manifest.namespaces : ChkSagas(n) \in ok}

\* lines the run has injected into the reducer registry text so far
ReducerInjected == NewLines(componentTree.reducersSourceCode, globalReducerSourceCode)

\* lines the run has injected into the side-effect registry text so far
SagasInjected == NewLines(componentTree.sagasSourceCode, globalSagasSourceCode)

\* C14: within a run no injection loses another: each registry text in memory
\* is the text that was read followed by the lines of every injection made so
\* far, one import line per namespace; each registry is written back once,
\* only after the injections of all manifest namespaces, with that text, and
\* is untouched on disk until then.
C14_NoLostInjection ==
    GetTree \in ok =>
        /\ IsPrefix(componentTree.reducersSourceCode, globalReducerSourceCode)
        /\ IsPrefix(componentTree.sagasSourceCode, globalSagasSourceCode)
        /\ Len(ReducerInjected) = 2 * Cardinality(InjectedTasks)
        /\ Len(SagasInjected) = 2 * Cardinality(InjectedTasks)
        /\ \A n \in InjectedTasks :
               /\ CountImports(ReducerInjected, ReducerPath(n)) = 1
               /\ CountImports(SagasInjected, SagasPath(n)) = 1
        /\ WriteReducers \in started => InjectedTasks = DOMAIN manifest.namespaces
        /\ WriteSagas \in started => WriteReducers \in ok
        /\ reducerWrites = (IF WriteReducers \in ok THEN 1 ELSE 0)
        /\ sagasWrites = (IF WriteSagas \in ok THEN 1 ELSE 0)
        /\ reducersFile = (IF WriteReducers \in ok THEN globalReducerSourceCode
                           ELSE componentTree.reducersSourceCode)
        /\ sagasFile = (IF WriteSagas \in ok THEN globalSagasSourceCode
                        ELSE componentTree.sagasSourceCode)

\* C14 witness: the injections of two namespaces were made into a registry
\* that already held entries and both registries were written back.
C14_Witness ==
    /\ DOMAIN manifest.namespaces = Names
    /\ WriteSagas \in ok
    /\ componentTree.reducersSourceCode # <<>>

\* the lines at i and i + 1 of a text are one injection's import and entry
InjectionAt(text, i, importLine, entryLine) ==
    /\ i + 1 \in DOMAIN text
    /\ text[i] = importLine
    /\ text[i + 1] = entryLine

\* C17 as stated: once the write-back of the registries has started, every
\* manifest namespace N has exactly one injected reducer import with the path
\* modules/N/reducer and exactly one injected side-effect import with the
\* path modules/N/sagas.
C17_ImportPathsWithoutFileName ==
    WriteReducers \in started =>
        \A N \in DOMAIN manifest.namespaces :
            /\ CountImports(ReducerInjected, <<"modules", N, "reducer">>) = 1
            /\ CountImports(SagasInjected, <<"modules", N, "sagas">>) = 1

\* C17 amended: the lines injected by the run hold, for every manifest
\* namespace N with reducerPropName R whose rewrite task has completed,
\* exactly one reducer injection (import of R 'Reducer' from
\* modules/N/reducer.js, entry R -> R 'Reducer') and exactly one side-effect
\* injection (import of N 'Sagas' from modules/N/sagas.js, entry without
\* symbol name), none for any other namespace, and the write-back starts only
\* when every manifest namespace has its two injections.
C17_InjectionArguments ==
    GetTree \in ok =>
        /\ \A N \in InjectedTasks :
               LET R == manifest.namespaces[N] IN
               /\ CountImports(ReducerInjected, ReducerPath(N)) = 1
               /\ \E i \in DOMAIN ReducerInjected :
                      InjectionAt(ReducerInjected, i,
                                  ImportLine(ReducerIdent(R), ReducerPath(N)),
                                  EntryLine(R, ReducerIdent(R)))
               /\ CountImports(SagasInjected, SagasPath(N)) = 1
               /\ \E i \in DOMAIN SagasInjected :
                      InjectionAt(SagasInjected, i,
                                  ImportLine(SagasIdent(N), SagasPath(N)),
                                  EntryLine("-", SagasIdent(N)))
        /\ \A N \in Names \ InjectedTasks :
               /\ CountImports(ReducerInjected, ReducerPath(N)) = 0
               /\ CountImports(SagasInjected, SagasPath(N)) = 0
        /\ WriteReducers \in started => InjectedTasks = DOMAIN manifest.namespaces

\* C17 witness: both registries were written for two namespaces, one of them
\* with a reducerPropName that differs from its own name.
C17_Witness ==
    /\ WriteSagas \in ok
    /\ InjectedTasks = Names
    /\ \E N \in Names : manifest.namespaces[N] # N

\* the calls of the copy task of subdirectory n of group g
TaskOps(g, n) ==
    {Remove(g, n), Copy(g, n)} \cup (IF g = "defaults" THEN {WriteIndex(n)} ELSE {})

\* a task of a copy group is still running after the invocation has rejected:
\* each of its calls in flight can still complete
SiblingsStillRun ==
    outcome = "failed" =>
        \A g \in Groups : \A n \in Names :
            /\ Remove(g, n) \in InFlight => ENABLED RemoveOk(g, n)
            /\ (g # "defaults" /\ Copy(g, n) \in InFlight) => ENABLED CopyOk(g, n)
            /\ Copy("defaults", n) \in InFlight => ENABLED CopyDefaultsOk(n)
            /\ WriteIndex(n) \in InFlight => ENABLED WriteIndexOk(n)

\* one step of a copy task: its rejection rejects the pending invocation in
\* that step; after the rejection its completions still act on the project
SiblingStep ==
    \A g \in Groups : \A n \in Names :
        /\ (outcome = "pending" /\ \E op \in TaskOps(g, n) : op \in failed' \ failed)
               => (outcome' = "failed" /\ reason' \in TaskOps(g, n))
        /\ (outcome = "failed" /\ Remove(g, n) \in ok' \ ok)
               => (dest'[g][n] = "absent" /\ Copy(g, n) \in started')
        /\ (outcome = "failed" /\ Copy(g, n) \in ok' \ ok)
               => /\ dest'[g][n] = "bundle"
                  /\ g = "defaults" =>
                         /\ componentsIndexSourceCode' =
                                injectNamespaceComponent(componentsIndexSourceCode, n,
                                                         ComponentPath(n))
                         /\ WriteIndex(n) \in started'
        /\ (outcome = "failed" /\ WriteIndex(n) \in ok' \ ok)
               => indexFile' = indexWriteText[n]
        /\ outcome = "failed" =>
               /\ outcome' = "failed"
               /\ ReadDir(g) \in started' => ReadDir(g) \in started

\* C15: in a copy group the first rejection of a task rejects the invocation
\* in the same step, whatever the other tasks are doing; the tasks already
\* started are not cancelled: after the rejection each call they have in
\* flight can still complete, and its completion still removes or copies the
\* destination directory and, in the defaults group, still injects into the
\* index text and writes the component index. No later group is started.
C15_SiblingsNotCancelled == [][SiblingStep]_vars /\ []SiblingsStillRun

\* C15 witness: the invocation has rejected with the removal of one defaults
\* subdirectory while the task of another one is still removing.
C15_Witness ==
    /\ outcome = "failed"
    /\ reason[1] = "removeFile"
    /\ reason[2] = "defaults"
    /\ \E n \in Names : n # reason[3] /\ Remove("defaults", n) \in InFlight

\* C16: in every copy group the copyFile of a subdirectory is called only
\* after the removeFile of its destination has resolved; a removal that
\* rejects leaves the destination as it was and its subdirectory uncopied;
\* between removal and copy the destination is absent, and once the copy has
\* resolved the destination holds the bundle's copy and nothing of what was
\* there before.
C16_RemoveThenCopy ==
    \A g \in Groups : \A n \in Names :
        /\ Copy(g, n) \in started => Remove(g, n) \in ok
        /\ Remove(g, n) \in started => n \in bundle[g]
        /\ Remove(g, n) \notin ok => dest[g][n] = InitialDest[g][n]
        /\ Remove(g, n) \in failed => Copy(g, n) \notin started
        /\ (Remove(g, n) \in ok /\ Copy(g, n) \notin ok) => dest[g][n] = "absent"
        /\ Copy(g, n) \in ok => dest[g][n] = "bundle"

\* C16 witness: a subdirectory was copied over a destination directory of the
\* same name that the project already held, while the removal of another
\* one failed.
C16_Witness ==
    \E g \in Groups : \E n \in Names : \E m \in Names :
        /\ InitialDest[g][n] = "old"
        /\ Copy(g, n) \in ok
        /\ dest[g][n] = "bundle"
        /\ Remove(g, m) \in failed
        /\ dest[g][m] = "old"

\* the invocation has settled
Terminal == outcome \in {"done", "failed"}

\* a step repeats nothing: calls once made stay made, a settled call keeps
\* its result and is not made again, and a settled invocation keeps its
\* outcome and the reason it gave
NoRetryStep ==
    /\ started \subseteq started'
    /\ ok \subseteq ok'
    /\ failed \subseteq failed'
    /\ (started' \ started) \cap (ok \cup failed) = {}
    /\ ok' \cap failed' = {}
    /\ ok' \cup failed' \subseteq started'
    /\ Cardinality((ok' \cup failed') \ (ok \cup failed)) <= 1
    /\ reducerWrites' <= 1
    /\ sagasWrites' <= 1
    /\ Terminal => (outcome' = outcome /\ reason' = reason)

\* C18: when every call that was made eventually settles, an invocation of
\* installFromLocalDir eventually resolves or rejects; it never does both,
\* its outcome never changes afterwards, and no call of any stage is made or
\* settled a second time.
C18_SettlesOnce ==
    /\ (outcome = "pending") ~> Terminal
    /\ [][NoRetryStep]_vars

\* C18 witness: the invocation has rejected, a task left running has
\* rejected after it, and every call has settled.
C18_Witness ==
    /\ outcome = "failed"
    /\ InFlight = {}
    /\ Cardinality(failed) >= 2

\* no aggregation file was written and no destination directory was removed
\* or copied, and none of these calls was made
NothingWrittenOrCopied ==
    /\ WriteReducers \notin started
    /\ WriteSagas \notin started
    /\ \A g \in Groups : \A n \in Names : Remove(g, n) \notin started /\ Copy(g, n) \notin started
    /\ reducersFile = ReducersOf(ListOf(installed0))
    /\ sagasFile = SagasOf(ListOf(installed0))
    /\ dest = InitialDest

\* C19: when the bundle lacks modules/N/reducer.js or modules/N/sagas.js for
\* some manifest namespace N, the invocation never resolves, neither registry
\* is written and no directory is removed or copied.
C19_MissingModuleFileRejectsFirst ==
    (\E N \in DOMAIN manifest.namespaces : N \notin bundle["modules"] \/ N \notin bundle["sagas.js"])
        => (outcome # "done" /\ NothingWrittenOrCopied)

\* namespaces with an import of their reducer.js among the lines the run
\* added to the reducer registry on disk
RegisteredReducers ==
    {n \in Names :
        CountImports(NewLines(componentTree.reducersSourceCode, reducersFile),
                     ReducerPath(n)) > 0}

\* namespaces with an import of their sagas.js among the lines the run added
\* to the side-effect registry on disk
RegisteredSagas ==
    {n \in Names :
        CountImports(NewLines(componentTree.sagasSourceCode, sagasFile), SagasPath(n)) > 0}

\* C20: when the invocation has resolved, the namespaces registered in the
\* two registries are exactly the keys of the manifest's namespaces map, the
\* directories copied in each group are exactly the subdirectories of that
\* group of the bundle (every other destination is as it was), and the index
\* entries injected are exactly those of the defaults subdirectories; the
\* manifest and the groups are never compared with one another.
C20_ManifestAndDirsIndependent ==
    outcome = "done" =>
        /\ RegisteredReducers = DOMAIN manifest.namespaces
        /\ RegisteredSagas = DOMAIN manifest.namespaces
        /\ \A g \in Groups :
               /\ {n \in Names : Copy(g, n) \in ok} = bundle[g]
               /\ \A n \in Names :
                      dest[g][n] = (IF n \in bundle[g] THEN "bundle" ELSE InitialDest[g][n])
        /\ IndexedNames(IndexInjected) = bundle["defaults"]

\* C20 witness: the invocation has resolved with a modules directory copied
\* into the project that the manifest does not declare and that neither
\* registry registers, and with groups that hold different subdirectories.
C20_Witness ==
    /\ outcome = "done"
    /\ \E n \in bundle["modules"] \ DOMAIN manifest.namespaces :
           /\ dest["modules"][n] = "bundle"
           /\ n \notin RegisteredReducers \cup RegisteredSagas
    /\ DOMAIN manifest.namespaces # {}
    /\ bundle["defaults"] # bundle["modules"]
    /\ bundle["docs"] # bundle["modules"]

====
